---- MODULE Spec2Model ----
(***************************************************************************)
(* A model of src/src/parcel.py: AerosolSpecies, ParcelModel._setup_run    *)
(* and ParcelModel.run.                                                    *)
(*                                                                         *)
(* Numbers.  Real quantities are integers in fixed units: times in ticks   *)
(* (dt is a whole number of ticks), heights in length units, radii in      *)
(* units of 1e-4 m (so that 1 mm = 10), supersaturations in units of       *)
(* 0.001.  A quotient such as z_top/V is kept exact as a pair              *)
(* <<numerator, denominator>>.                                             *)
(*                                                                         *)
(* Arrays.  The solver's result x is an array of len(t) rows and len(y0)   *)
(* columns whose entries are not computed here (the derivative function    *)
(* and the integrator are outside parcel.py).  A column slice x[:,c] is    *)
(* represented by the column number c, so that a table of the output says  *)
(* which component of the state vector each of its columns holds.          *)
(***************************************************************************)
EXTENDS Integers, Sequences, FiniteSets, TLC

(* ------------------------------ bounds -------------------------------- *)
\* Largest number of species in a population.
MaxSpecies == 2
\* Largest number of bins of one species.
MaxBins == 2
\* Largest number of bins of a run whose root-finder result is not the
\* converged physical root.
MaxAnomalies == 1

(* ------------------------- program constants -------------------------- *)
\* `t_end = dt*1000`: the step count of a fixed-duration run.
FixedCount == 1000
\* `r > 1e-3`: 1 mm, in radius units of 1e-4 m.
BadRadiusLimit == 10
\* `> 0.02`, kept as its reciprocal: a/S0 > 1/50.
DiscrepancyInv == 50
\* The state vector starts with P, T, wv, wc, S: radii start at column 5.
NParcelVars == 5
\* P0, T0 (K, rounded) and S0 (-0.05) of the script's run.
P0Val == 95000
T0Val == 285
S0Val == -50

(* ------------------------------ helpers ------------------------------- *)
None == [none |-> TRUE, val |-> 0]
Some(v) == [none |-> FALSE, val |-> v]
\* Python's truth value of a number or None (`if self.V:`).
Truthy(o) == ~o.none /\ o.val # 0

Abs(a) == IF a < 0 THEN -a ELSE a

RECURSIVE Repeat(_, _)
\* [v]*n
Repeat(v, n) == IF n <= 0 THEN <<>> ELSE <<v>> \o Repeat(v, n - 1)

Min(a, b) == IF a < b THEN a ELSE b
Max(a, b) == IF a < b THEN b ELSE a

\* ceil(a/b) for b > 0
CeilDiv(a, b) == IF a % b = 0 THEN a \div b ELSE (a \div b) + 1

(* ------------------------------ inputs -------------------------------- *)
\* The names of the species of a population, by position.
SpeciesNames == <<"(NH4)2SO4", "NaCl", "OC", "BC">>
\* 'kappa': 0.6 for the first species, 0.01 for the others, in units of 0.01.
KappaOf(k) == IF k = 1 THEN 60 ELSE 1
\* The i-th dry radius and number concentration handed in for species k.
BinRadius(k, i) == k + i
BinNumber(k, i) == 10 * k + i

\* The keyword bag AerosolSpecies is constructed from: species k with nr
\* dry radii and nn number concentrations.  Nothing in the program relates
\* the two lengths.
SpeciesValues(k, name, nr, nn) ==
    [species |-> name, kappa |-> KappaOf(k),
     r_drys |-> [i \in 1..nr |-> BinRadius(k, i)],
     Nis |-> [i \in 1..nn |-> BinNumber(k, i)]]

\* Updraft speeds: unset, zero, and 2 length units per tick.
VChoices == {None, Some(0), Some(2)}
\* Arguments of run: S0, and <<z_top, dt, max_steps>>.
S0Choices == {-50, 50}
RunChoices == {<<3, 1, 500>>, <<4, 1, 1000>>, <<3, 2, 500>>}

\* What the root-finder can hand back for one bin: the radius and the
\* deviation of Seq at that radius from S0.  Converged is a physical root;
\* the others are a negative radius, a radius of exactly zero, a radius
\* above 1 mm, and a radius whose residual is 4% of |S0| = 0.05.
Converged == [r |-> 3, dev |-> 0]
FsolveOutcomes ==
    { Converged, [r |-> -1, dev |-> 0], [r |-> 0, dev |-> 0],
      [r |-> BadRadiusLimit + 1, dev |-> 0], [r |-> 3, dev |-> 2] }

\* The outcomes of the root-finder for n bins, at most MaxAnomalies of them
\* other than Converged.
FsolveRuns(n) ==
    UNION { { [g \in 1..n |-> IF g \in bad THEN a[g] ELSE Converged] :
              a \in [bad -> FsolveOutcomes \ {Converged}] } :
            bad \in {b \in SUBSET (1..n) : Cardinality(b) <= MaxAnomalies} }

(* --------------------------- AerosolSpecies --------------------------- *)
\* AerosolSpecies.__init__: the fields are copied, nr is len(r_drys).
\* (distribution and rs are plotting metadata that run never reads.)
AerosolSpecies(values) ==
    [species |-> values.species, kappa |-> values.kappa,
     r_drys |-> values.r_drys, Nis |-> values.Nis,
     nr |-> Len(values.r_drys)]

\* ParcelModel.__init__: the arguments are stored; no y0 attribute yet.
ParcelModel(aerosols, V, T0, S0, P0, console) ==
    [aerosols |-> aerosols, V |-> V, T0 |-> T0, S0 |-> S0, P0 |-> P0,
     console |-> console, y0 |-> [set |-> FALSE, val |-> <<>>]]

\* The populations a model is constructed with: 1..MaxSpecies species of
\* 1..MaxBins bins each.  "plain": the species' names all different and
\* every species with as many Nis as r_drys; "dup": the second species
\* named like the first; "extra": the first species with one more Nis than
\* r_drys.
Populations ==
    { [k \in 1..Len(shape) |->
         AerosolSpecies(SpeciesValues(
             k,
             IF kind = "dup" /\ k = 2 THEN SpeciesNames[1] ELSE SpeciesNames[k],
             shape[k],
             IF kind = "extra" /\ k = 1 THEN shape[k] + 1 ELSE shape[k]))] :
      shape \in UNION { [1..n -> 1..MaxBins] : n \in 1..MaxSpecies },
      kind \in {"plain", "dup", "extra"} }

(* ---------------------------- _setup_run ----------------------------- *)
RECURSIVE FlattenAerosols(_)
\* The loop over self.aerosols that extends r_drys, kappas, Nis and species.
FlattenAerosols(aerosols) ==
    IF aerosols = <<>>
    THEN [r_drys |-> <<>>, kappas |-> <<>>, Nis |-> <<>>, species |-> <<>>]
    ELSE LET a == Head(aerosols)
             rest == FlattenAerosols(Tail(aerosols))
         IN [r_drys |-> a.r_drys \o rest.r_drys,
             kappas |-> Repeat(a.kappa, a.nr) \o rest.kappas,
             Nis |-> a.Nis \o rest.Nis,
             species |-> Repeat(a.species, a.nr) \o rest.species]

\* wv0 = (1.-S0)*0.622*es(T0-273.15)/(P0-es(T0-273.15)), in units of
\* 0.001*0.622*es/(P0-es): T0 and P0 are fixed, so the factor is one number.
WaterVapor(S0) == 1000 - S0

\* `if r < 0 or r > 1e-3`
BadRadius(r) == r < 0 \/ r > BadRadiusLimit

\* `if np.abs(ss-S0)/S0 > 0.02`, a/S0 > 1/50 cross-multiplied; numpy's
\* a/0 is inf for a > 0 (greater than 0.02) and nan for a = 0 (not greater).
SDiscrepancy(ss, S0) ==
    LET a == Abs(ss - S0)
    IN IF S0 > 0 THEN a * DiscrepancyInv > S0
       ELSE IF S0 < 0 THEN a * DiscrepancyInv < S0
       ELSE a > 0

\* The messages the console loop prints for the solved bins.
ConsoleChecks(console, r0s, sss, S0) ==
    IF ~console THEN {}
    ELSE { [msg |-> "Found bad r", bin |-> g] :
             g \in {h \in DOMAIN r0s : BadRadius(r0s[h])} }
         \cup
         { [msg |-> "Found S discrepancy", bin |-> g] :
             g \in {h \in DOMAIN r0s : SDiscrepancy(sss[h], S0)} }

RECURSIVE SumTo(_, _)
SumTo(f, n) == IF n = 0 THEN 0 ELSE f[n] + SumTo(f, n - 1)

\* wc0 = sum of (4 pi/3) rho_w Ni (r0^3 - r_dry^3) over zip(r0s, r_drys, Nis),
\* in units of (4 pi/3) rho_w.  zip stops at the shortest of the three.
WaterContent(r0s, r_drys, Nis) ==
    LET n == Min(Len(r0s), Min(Len(r_drys), Len(Nis)))
        term == [i \in 1..n |->
                   Nis[i] * (r0s[i] * r0s[i] * r0s[i]
                             - r_drys[i] * r_drys[i] * r_drys[i])]
    IN SumTo(term, n)

\* y0 = [P0, T0, wv0, wc0, S0] extended by r0s
InitialState(P0, T0, S0, r0s, r_drys, Nis) ==
    <<P0, T0, WaterVapor(S0), WaterContent(r0s, r_drys, Nis), S0>> \o r0s

(* -------------------------------- run --------------------------------- *)
\* t_end, as <<numerator, denominator>>.
EndTime(V, z_top, dt) ==
    IF Truthy(V) THEN <<z_top, V.val>> ELSE <<dt * FixedCount, 1>>

\* np.arange(0., t_end, dt): a grid that stops short of t_end.
TimeGridExclusive(t_end, dt) ==
    LET num == t_end[1]
        den == dt * t_end[2]
    IN [step |-> dt, len |-> IF num <= 0 THEN 0 ELSE CeilDiv(num, den)]

\* np.arange(0., t_end + dt, dt): the points k*dt, k = 0 .. len-1, with
\* len = ceil((t_end + dt)/dt), none when that is not positive.
TimeGrid(t_end, dt) ==
    LET num == t_end[1] + dt * t_end[2]
        den == dt * t_end[2]
    IN [step |-> dt, len |-> IF num <= 0 THEN 0 ELSE CeilDiv(num, den)]

\* What odeint can return for a grid of n points and a state of m
\* components: always an n x m array.  reached is the number of rows the
\* solver filled before it stopped (n unless mxstep steps were not enough
\* to get to the next point: it then warns and returns, the other rows
\* unset); nonfinite is the first row holding a NaN or Inf (0: none).
OdeintResults(n, m) ==
    { [nrows |-> n, ncols |-> m, reached |-> n, nonfinite |-> b] : b \in {0, n} }
    \cup
    { [nrows |-> n, ncols |-> m, reached |-> k, nonfinite |-> 0] :
      k \in {(n + 1) \div 2} \ {n} }

\* heights[offset:] for heights = t*V
HeightIndex(t, V, offset) ==
    [first |-> offset, step |-> t.step * V.val, len |-> Max(t.len - offset, 0)]

\* df1: the five parcel columns of x
ParcelTable(index) ==
    [cols |-> [P |-> 0, T |-> 1, wv |-> 2, wc |-> 3, S |-> 4], index |-> index]

RECURSIVE AerosolTables(_, _, _)
\* The loop that fills aerosol_dfs: one table per species, under the
\* species' name, column i taken from x[:, 5+species_shift+i].
AerosolTables(aerosols, species_shift, index) ==
    IF aerosols = <<>> THEN <<>>
    ELSE LET a == Head(aerosols)
             table == [cols |-> [i \in 1..a.nr |->
                                   NParcelVars + species_shift + (i - 1)],
                       index |-> index]
         IN <<[species |-> a.species, table |-> table]>>
            \o AerosolTables(Tail(aerosols), species_shift + a.nr, index)

\* The dict aerosol_dfs after the loop: a later assignment to a key
\* replaces an earlier one.
AerosolDfs(aerosols, index) ==
    LET items == AerosolTables(aerosols, 0, index)
        keys == {items[j].species : j \in DOMAIN items}
        last(k) == CHOOSE j \in DOMAIN items :
                      /\ items[j].species = k
                      /\ \A h \in DOMAIN items : items[h].species = k => h <= j
    IN [k \in keys |-> items[last(k)].table]

\* A column of a Panel item that its DataFrame did not have: all NaN.
NaNColumn == -1

\* pandas.Panel(aerosol_dfs): every item is reindexed to the union of the
\* frames' columns (r000, r001, ...), the columns a frame lacks filled
\* with NaN.
Panel(dfs) ==
    LET width == IF DOMAIN dfs = {} THEN 0
                 ELSE CHOOSE w \in {Len(dfs[k].cols) : k \in DOMAIN dfs} :
                        \A k \in DOMAIN dfs : Len(dfs[k].cols) <= w
    IN [k \in DOMAIN dfs |->
          [cols |-> [i \in 1..width |->
                       IF i <= Len(dfs[k].cols) THEN dfs[k].cols[i]
                       ELSE NaNColumn],
           index |-> dfs[k].index]]

\* A run that goes from the call straight to the time grid.
AfterSkipSetup(p, console) ==
    CASE p = "constructed" -> "grid"
      [] p = "setup" -> "grid"
      [] p = "grid" -> IF console THEN "confirm" ELSE "integrate"
      [] p = "confirm" -> "integrate"
      [] p = "integrate" -> "package"
      [] p = "package" -> "returned"

\* The statements of run in order; raw_input only with console.
After(p, console) ==
    CASE p = "constructed" -> "setup"
      [] p = "setup" -> "grid"
      [] p = "grid" -> IF console THEN "confirm" ELSE "integrate"
      [] p = "confirm" -> "integrate"
      [] p = "integrate" -> "package"
      [] p = "package" -> "returned"

NoArgs == [P0 |-> 0, T0 |-> 0, S0 |-> 0, z_top |-> 0, dt |-> 0, max_steps |-> 0]
NoFlat == [r_drys |-> <<>>, kappas |-> <<>>, Nis |-> <<>>, species |-> <<>>]
NoGrid == [step |-> 0, len |-> 0]
NoX == [nrows |-> 0, ncols |-> 0, reached |-> 0, nonfinite |-> 0]
NoOut == [set |-> FALSE, df1 |-> <<>>, panel |-> <<>>]

VARIABLES
    self,     \* the ParcelModel object
    pc,       \* where the call of run is
    args,     \* run's arguments
    flat,     \* _setup_run: r_drys, kappas, Nis, species
    r0s,      \* _setup_run: the solved radii
    sss,      \* Seq at each solved radius
    log,      \* what the console checks printed
    y0,       \* run: setup_results['y0']
    t,        \* run: the time grid
    x,        \* run: odeint's result
    out,      \* what run returned
    exc,      \* the exception that ended run ("" while none)
    phases    \* the phases run has completed, in order

vars == <<self, pc, args, flat, r0s, sss, log, y0, t, x, out, exc, phases>>

Init ==
    /\ \E aerosols \in Populations, V \in VChoices, console \in BOOLEAN :
         self = ParcelModel(aerosols, V, T0Val, S0Val, P0Val, console)
    /\ pc = "constructed"
    /\ args = NoArgs /\ flat = NoFlat /\ r0s = <<>> /\ sss = <<>>
    /\ log = {} /\ y0 = <<>> /\ t = NoGrid /\ x = NoX /\ out = NoOut
    /\ exc = "" /\ phases = <<>>

\* pm.run(P0, T0, S0, z_top, dt, max_steps) is called.
Call ==
    /\ pc = "constructed"
    /\ \E S0 \in S0Choices, c \in RunChoices :
         args' = [P0 |-> P0Val, T0 |-> T0Val, S0 |-> S0, z_top |-> c[1],
                  dt |-> c[2], max_steps |-> c[3]]
    /\ pc' = After(pc, self.console)
    /\ phases' = Append(phases, "call")
    /\ UNCHANGED <<self, flat, r0s, sss, log, y0, t, x, out, exc>>

\* A fail-fast _setup_run: a flagged bin raises.
SetupFailureFailFast(console, radii, residuals, S0) ==
    IF \E g \in DOMAIN radii :
          BadRadius(radii[g]) \/ SDiscrepancy(residuals[g], S0)
    THEN "EquilibriumSolveFailure" ELSE ""

\* The exception _setup_run raises for the radii and residuals the
\* root-finder handed back ("": none; the checks only print).
SetupFailure(console, radii, residuals, S0) == ""

\* A _setup_run that also keeps the run's S0 on the object.
StoreY0AndS0(obj, v) ==
    [obj EXCEPT !.y0 = [set |-> TRUE, val |-> v], !.S0 = v[NParcelVars]]

\* self.y0 = y0
StoreY0(obj, v) == [obj EXCEPT !.y0 = [set |-> TRUE, val |-> v]]

\* _setup_run: the aerosols flattened, the equilibrium wet radius of every
\* bin (whatever fsolve hands back for it), the console's checks of them,
\* wc0 and y0; y0 is also kept on the object.
SetupRun ==
    /\ pc = "setup"
    /\ flat' = FlattenAerosols(self.aerosols)
    /\ \E o \in FsolveRuns(Len(flat'.r_drys)) :
         /\ r0s' = [g \in 1..Len(flat'.r_drys) |-> o[g].r]
         /\ sss' = [g \in 1..Len(flat'.r_drys) |-> args.S0 + o[g].dev]
    /\ log' = ConsoleChecks(self.console, r0s', sss', args.S0)
    /\ phases' = Append(phases, "setup")
    /\ IF SetupFailure(self.console, r0s', sss', args.S0) # ""
       THEN /\ exc' = SetupFailure(self.console, r0s', sss', args.S0)
            /\ pc' = "raised"
            /\ UNCHANGED <<self, y0>>
       ELSE /\ y0' = InitialState(args.P0, args.T0, args.S0, r0s',
                                  flat'.r_drys, flat'.Nis)
            /\ self' = StoreY0(self, y0')
            /\ pc' = After(pc, self.console)
            /\ exc' = exc
    /\ UNCHANGED <<args, t, x, out>>

\* run: Setup run time conditions.
BuildTimeGrid ==
    /\ pc = "grid"
    /\ t' = TimeGrid(EndTime(self.V, args.z_top, args.dt), args.dt)
    /\ pc' = After(pc, self.console)
    /\ phases' = Append(phases, "grid")
    /\ UNCHANGED <<self, args, flat, r0s, sss, log, y0, x, out, exc>>

\* run: raw_input("Continue run?") returns.
ConfirmContinue ==
    /\ pc = "confirm"
    /\ pc' = After(pc, self.console)
    /\ phases' = Append(phases, "confirm")
    /\ UNCHANGED <<self, args, flat, r0s, sss, log, y0, t, x, out, exc>>

\* run: odeint(der, y0, t, args=(nr, r_drys, Nis, self.V, kappas), ...).
\* It returns an array; with self.V None it may instead end in the
\* TypeError of der (parcel_aux, compiled) being handed None for V.
Integrate ==
    /\ pc = "integrate"
    /\ phases' = Append(phases, "integrate")
    /\ \/ /\ x' \in OdeintResults(t.len, Len(y0))
          /\ pc' = After(pc, self.console)
          /\ exc' = exc
       \/ /\ self.V.none
          /\ exc' = "TypeError" /\ pc' = "raised" /\ x' = x
    /\ UNCHANGED <<self, args, flat, r0s, sss, log, y0, t, out>>

\* run: heights, the parcel table, the per-species tables, the Panel.
\* t*self.V is a TypeError when self.V is None; a DataFrame whose index is
\* not as long as its columns is a ValueError.
Package ==
    /\ pc = "package"
    /\ phases' = Append(phases, "package")
    /\ IF self.V.none
       THEN exc' = "TypeError" /\ pc' = "raised" /\ out' = out
       ELSE LET offset == IF t.len > x.nrows THEN 1 ELSE 0
                index == HeightIndex(t, self.V, offset)
            IN IF index.len # x.nrows
               THEN exc' = "ValueError" /\ pc' = "raised" /\ out' = out
               ELSE /\ out' = [set |-> TRUE, df1 |-> ParcelTable(index),
                               panel |-> Panel(AerosolDfs(self.aerosols, index))]
                    /\ pc' = After(pc, self.console)
                    /\ exc' = exc
    /\ UNCHANGED <<self, args, flat, r0s, sss, log, y0, t, x>>

Next ==
    \/ Call
    \/ SetupRun
    \/ BuildTimeGrid
    \/ ConfirmContinue
    \/ Integrate
    \/ Package

Spec == Init /\ [][Next]_vars

(* ------------------------------ claims -------------------------------- *)
Done(p) == \E i \in DOMAIN phases : phases[i] = p

IsPrefix(a, b) == Len(a) <= Len(b) /\ \A i \in 1..Len(a) : a[i] = b[i]

RECURSIVE ShiftOf(_, _)
\* nr_0 + ... + nr_{k-1}: the bins of the species before the k-th (k from 1).
ShiftOf(aerosols, k) ==
    IF k <= 1 THEN 0 ELSE aerosols[k - 1].nr + ShiftOf(aerosols, k - 1)

NBins(aerosols) == ShiftOf(aerosols, Len(aerosols) + 1)

\* The grid t starts at 0, advances in steps of dt, and its last point is
\* the first multiple of dt at or after the end time num/den.
GridReaches(num, den) ==
    /\ t.step = args.dt
    /\ t.len >= 1
    /\ num <= (t.len - 1) * t.step * den
    /\ (t.len - 1) * t.step * den < num + args.dt * den

\* C1, as stated: once the time grid is built, its end time is z_top/V when
\* V is non-zero and dt*max_steps when V is zero or None, and the grid runs
\* from 0 in steps of dt up to that end time.
C1_EndTimeUsesMaxSteps ==
    Done("grid") =>
        IF Truthy(self.V) THEN GridReaches(args.z_top, self.V.val)
        ELSE GridReaches(args.dt * args.max_steps, 1)

\* C1, amended: once the time grid is built, its end time is z_top/V when V
\* is non-zero and dt*1000 when V is zero or None, whatever max_steps is;
\* the grid starts at 0, advances in steps of dt, and ends at the first
\* multiple of dt at or after that end time.
C1_EndTimeUsesFixedCount ==
    Done("grid") =>
        IF Truthy(self.V) THEN GridReaches(args.z_top, self.V.val)
        ELSE GridReaches(args.dt * FixedCount, 1)

\* A fixed-duration grid (V zero or None) built in a run whose max_steps is
\* not 1000: 1001 points, whatever max_steps is.
C1_Witness ==
    /\ Done("grid")
    /\ ~Truthy(self.V) /\ args.max_steps # FixedCount
    /\ t.len = FixedCount + 1

\* C2: a run of a model whose V is zero or None never ends in an exception.
C2_FixedDurationRunReturns ==
    ~Truthy(self.V) => pc # "raised"

\* C3: the returned Panel holds, for the k-th species, a table under its
\* name with exactly nr_k columns, column i being component
\* 5 + (nr_0 + ... + nr_{k-1}) + i of the state vector.
C3_OneTablePerSpecies ==
    pc = "returned" =>
        \A k \in DOMAIN self.aerosols :
            LET a == self.aerosols[k]
            IN /\ a.species \in DOMAIN out.panel
               /\ Len(out.panel[a.species].cols) = a.nr
               /\ \A i \in 1..a.nr :
                     out.panel[a.species].cols[i]
                       = NParcelVars + ShiftOf(self.aerosols, k) + (i - 1)

\* C4: the phases of a run come in the order call, setup (equilibrium
\* solve), time grid, (confirm,) integration, packaging; when the
\* integrator has been started, a radius has been solved for every bin and
\* the state vector of 5 + nbins components built; when output is packaged,
\* the integrator has returned an array of len(t) rows and len(y0) columns.
C4_PhaseOrder ==
    /\ IsPrefix(phases,
                IF self.console
                THEN <<"call", "setup", "grid", "confirm", "integrate", "package">>
                ELSE <<"call", "setup", "grid", "integrate", "package">>)
    /\ Done("integrate") =>
          /\ Done("setup")
          /\ Len(r0s) = NBins(self.aerosols)
          /\ Len(y0) = NParcelVars + NBins(self.aerosols)
    /\ (Done("package") \/ out.set) =>
          /\ Done("integrate")
          /\ x.nrows = t.len /\ t.len >= 1
          /\ x.ncols = Len(y0)

C4_Witness ==
    /\ pc = "returned" /\ out.set
    /\ Len(self.aerosols) = 2 /\ NBins(self.aerosols) >= 3

\* C5: a run whose solver ran out of steps before the last requested time
\* does not return output.
C5_StepLimitIsFatal ==
    (Done("integrate") /\ x.reached < x.nrows) => ~out.set

\* C6: a run whose solver produced a non-finite state does not return
\* output.
C6_NonFiniteIsFatal ==
    (Done("integrate") /\ x.nonfinite # 0) => ~out.set

\* Bin g came back from the root-finder with a non-positive radius, a radius
\* above 1 mm, or a residual above 2% of |S0|.
Anomalous(g) ==
    \/ r0s[g] <= 0
    \/ r0s[g] > BadRadiusLimit
    \/ Abs(sss[g] - args.S0) * DiscrepancyInv > Abs(args.S0)

\* C7: whatever the root-finder hands back, _setup_run ends with the state
\* vector built from the solved radii (and kept on the object), raises
\* nothing, and run goes on to the integration: an exception, if any, comes
\* only once the integrator has been started.
C7_AnomalyDoesNotAbort ==
    Done("setup") =>
        /\ Len(r0s) = NBins(self.aerosols)
        /\ y0 = <<args.P0, args.T0, WaterVapor(args.S0),
                  WaterContent(r0s, flat.r_drys, flat.Nis), args.S0>> \o r0s
        /\ self.y0 = [set |-> TRUE, val |-> y0]
        /\ pc = "raised" => Done("integrate")
        /\ ~Done("integrate") => ENABLED (BuildTimeGrid \/ ConfirmContinue \/ Integrate)

C7_Witness ==
    /\ Done("integrate")
    /\ \E g \in DOMAIN r0s : Anomalous(g) /\ r0s[g] <= 0
    /\ self.console

\* C8, as stated: no step of run changes the model object.
C8_ObjectUnchanged == [][self' = self]_vars

\* C8, amended: no step of run changes aerosols, V, T0, S0, P0 or console
\* of the model object; the one attribute a run changes is y0, which
\* _setup_run sets to the run's initial state vector.
C8_ObjectUnchangedButY0 ==
    [][/\ self'.aerosols = self.aerosols /\ self'.V = self.V
       /\ self'.T0 = self.T0 /\ self'.S0 = self.S0 /\ self'.P0 = self.P0
       /\ self'.console = self.console
       /\ self'.y0 # self.y0 => (pc = "setup" /\ self'.y0 = [set |-> TRUE, val |-> y0'])]_vars

\* A finished run whose S0 argument is not the object's S0.
C8_Witness ==
    /\ pc = "returned" /\ self.y0.set /\ self.y0.val = y0
    /\ args.S0 # self.S0

\* C9: with the console checks on, every bin whose solved radius is
\* non-positive or above 1 mm, or whose residual is above 2% of |S0|, has a
\* message printed for it.
C9_AnomalousBinFlagged ==
    (Done("setup") /\ self.console) =>
        \A g \in DOMAIN r0s : Anomalous(g) => \E m \in log : m.bin = g

\* C10: r_drys, kappas and Nis have nbins entries each, entry shift_k + i of
\* each is bin i of species k, y0 has 5 + nbins entries, and every species
\* has as many Nis as r_drys.
C10_ParallelArrays ==
    Done("setup") =>
        /\ Len(flat.r_drys) = NBins(self.aerosols)
        /\ Len(flat.kappas) = NBins(self.aerosols)
        /\ Len(flat.Nis) = NBins(self.aerosols)
        /\ Len(y0) = NParcelVars + NBins(self.aerosols)
        /\ \A k \in DOMAIN self.aerosols :
              LET a == self.aerosols[k]
                  shift == ShiftOf(self.aerosols, k)
              IN /\ Len(a.r_drys) = Len(a.Nis)
                 /\ \A i \in 1..a.nr :
                       /\ flat.r_drys[shift + i] = a.r_drys[i]
                       /\ flat.kappas[shift + i] = a.kappa
                       /\ flat.Nis[shift + i] = a.Nis[i]

====
